---- MODULE Spec2Model ----
(***************************************************************************)
(* A model of the two utilities of the repository:                         *)
(*   headphones.py            parse_amount, extract_prices_from_card and   *)
(*                            the page loop of scrape_amazon;              *)
(*   simple_amazon_viewer.py  the CSV load loop and the search filter.     *)
(* Texts are sequences of one-character strings.  Python's None is the     *)
(* value None (amounts are never negative, the pattern has no sign).       *)
(***************************************************************************)
EXTENDS Integers, Sequences, FiniteSets, TLC

VARIABLES
    \* parse_amount
    text, amount, ppc,
    \* extract_prices_from_card and the discount computed by its caller
    offscreen, discounted_amt, mrp_amt, xpc, raised1, early, discount_percentage,
    \* scrape_amazon
    min_results, max_pages, results, pages_visited, spc, cards_left, pag_error, written,
    \* simple_amazon_viewer
    fs, category, search_all, vpc, load_idx, missing, dfs, query, filtered, shown

parse_vars  == <<text, amount, ppc>>
price_vars  == <<offscreen, discounted_amt, mrp_amt, xpc, raised1, early, discount_percentage>>
scrape_vars == <<min_results, max_pages, results, pages_visited, spc, cards_left, pag_error, written>>
viewer_vars == <<fs, category, search_all, vpc, load_idx, missing, dfs, query, filtered, shown>>
vars == <<parse_vars, price_vars, scrape_vars, viewer_vars>>

(***************************************************************************)
(* Bounds of the model.                                                    *)
(***************************************************************************)
MaxLen == 3          \* longest text handed to parse_amount
MaxOff == 2          \* most span.a-offscreen elements in a listing element
MaxResults == 2      \* largest min_results of a run
MaxPages == 2        \* largest max_pages of a run
MaxCards == 2        \* most listing elements found on one page
MaxRows == 1         \* most rows of a CSV file
MaxQLen == 2         \* longest text typed into the search box

None == -1

RECURSIVE SeqsUpTo(_, _)
SeqsUpTo(S, n) ==
    IF n = 0 THEN {<<>>}
    ELSE LET shorter == SeqsUpTo(S, n - 1)
         IN  shorter \cup {Append(s, c) : s \in shorter, c \in S}

(***************************************************************************)
(* Characters.  RUPEE is the currency marker of line 20 (one character     *)
(* here); a lone "R" or "s" is a character that no replace removes.        *)
(***************************************************************************)
RUPEE == "INR"
Digits == {"0", "1", "2", "3", "4", "5", "6", "7", "8", "9"}
ParseChars == {"0", "1", ",", ".", "R", "s", RUPEE}

DigitVal(c) ==
    CASE c = "0" -> 0 [] c = "1" -> 1 [] c = "2" -> 2 [] c = "3" -> 3 [] c = "4" -> 4
      [] c = "5" -> 5 [] c = "6" -> 6 [] c = "7" -> 7 [] c = "8" -> 8 [] c = "9" -> 9

IsPrefix(p, s) == Len(p) <= Len(s) /\ SubSeq(s, 1, Len(p)) = p

\* str.replace(pat, ""): the non-overlapping occurrences, left to right
RECURSIVE Remove(_, _)
Remove(s, pat) ==
    IF s = <<>> THEN <<>>
    ELSE IF IsPrefix(pat, s) THEN Remove(SubSeq(s, Len(pat) + 1, Len(s)), pat)
    ELSE <<Head(s)>> \o Remove(Tail(s), pat)

\* line 20
Normalize(t) == Remove(Remove(Remove(t, <<RUPEE>>), <<"R", "s", ".">>), <<"R", "s">>)

\* the longest prefix of s made of characters of S
RECURSIVE Run(_, _)
Run(s, S) ==
    IF s = <<>> \/ Head(s) \notin S THEN <<>> ELSE <<Head(s)>> \o Run(Tail(s), S)

\* AMT_RE matched at the head of s: [\d,]+ greedy, then (?:\.\d+)? greedy
MatchAt(s) ==
    LET body == Run(s, Digits \cup {","})
        rest == SubSeq(s, Len(body) + 1, Len(s))
        frac == IF rest # <<>> /\ Head(rest) = "." THEN Run(Tail(rest), Digits) ELSE <<>>
    IN  IF frac = <<>> THEN body ELSE body \o <<".">> \o frac

\* AMT_RE.search(t).group(0), or <<>> when there is no match (a match is never empty)
RECURSIVE AmtSearch(_)
AmtSearch(t) ==
    IF t = <<>> THEN <<>>
    ELSE IF Head(t) \in Digits \cup {","} THEN MatchAt(t)
    ELSE AmtSearch(Tail(t))

RECURSIVE DecValue(_)
DecValue(ds) ==
    IF ds = <<>> THEN 0 ELSE 10 * DecValue(SubSeq(ds, 1, Len(ds) - 1)) + DigitVal(ds[Len(ds)])

\* int(float(s)) of lines 25-29: float("") raises and the except returns None
IntFloat(s) ==
    LET whole == Run(s, Digits)
    IN  IF s = <<>> THEN None ELSE DecValue(whole)

parse_amount(text_in) ==
    IF text_in = <<>> THEN None
    ELSE LET t == Normalize(text_in)
             m == AmtSearch(t)
         IN  IF m = <<>> THEN None
             ELSE IntFloat(SelectSeq(m, LAMBDA c : c # ","))

(***************************************************************************)
(* Idle values of the parts a specification does not run.                  *)
(***************************************************************************)
ParseIdle  == text = <<>> /\ amount = None /\ ppc = "idle"
PriceIdle  == /\ offscreen = <<>> /\ discounted_amt = None /\ mrp_amt = None
              /\ xpc = "idle" /\ raised1 = FALSE /\ early = FALSE
              /\ discount_percentage = <<>>
ScrapeIdle == /\ min_results = 0 /\ max_pages = 0 /\ results = <<>>
              /\ pages_visited = 0 /\ spc = "idle" /\ cards_left = 0
              /\ pag_error = "none" /\ written = <<>>
ViewerIdle == /\ fs = <<>> /\ category = "" /\ search_all = FALSE /\ vpc = "idle"
              /\ load_idx = 0 /\ missing = <<>> /\ dfs = <<>> /\ query = <<>>
              /\ filtered = <<>> /\ shown = {}

(***************************************************************************)
(* parse_amount, called once on a text.                                    *)
(***************************************************************************)
ParseInit ==
    /\ text \in SeqsUpTo(ParseChars, MaxLen)
    /\ amount = None
    /\ ppc = "call"
    /\ PriceIdle /\ ScrapeIdle /\ ViewerIdle

ParseAmount ==
    /\ ppc = "call"
    /\ amount' = parse_amount(text)
    /\ ppc' = "returned"
    /\ UNCHANGED <<text, price_vars, scrape_vars, viewer_vars>>

ParseNext == ParseAmount

SpecParse == ParseInit /\ [][ParseNext]_vars

\* The first numeric token of a text, as the specification describes it: the
\* first digit and the digits and thousands separators that follow it.
RECURSIVE FirstNumericToken(_)
FirstNumericToken(t) ==
    IF t = <<>> THEN <<>>
    ELSE IF Head(t) \in Digits THEN Run(t, Digits \cup {","})
    ELSE FirstNumericToken(Tail(t))

\* C7: parse_amount returns the integer part of the first numeric token of the
\* text, whatever currency markers or punctuation surround it, and returns the
\* absent value exactly when the text holds no numeric token.
C7_FirstNumericToken ==
    ppc = "returned" =>
        LET tok == FirstNumericToken(text)
        IN  amount = IF tok = <<>> THEN None
                     ELSE DecValue(SelectSeq(tok, LAMBDA c : c # ","))

(***************************************************************************)
(* extract_prices_from_card on one listing element, then the discount its  *)
(* caller computes for the row.  The element's span.a-offscreen children   *)
(* are read by steps 1 and 2, so they are state: each has its text and     *)
(* whether it sits in a span.a-text-price.  What the other steps read, and *)
(* whether a step's DOM access raises, is drawn when the step runs.        *)
(* Whitespace is left out: strip() changes only the texts handed back.     *)
(***************************************************************************)
ABSENT == <<"absent">>
PriceTexts == { <<>>,
                <<RUPEE, "0">>,
                <<RUPEE, "1">>,
                <<RUPEE, "1", ",", "9", "9", "9">>,
                <<RUPEE, "2", ",", "9", "9", "9">>,
                <<"1", "0", "0", ",", "0", "0", "0">> }
WholeTexts == {ABSENT, <<>>, <<"0">>, <<"5", "0", "0">>, <<"1", ",", "9", "9", "9">>}
FracTexts == {ABSENT, <<>>, <<"0", "0">>}
FallbackTexts == {ABSENT, <<RUPEE>>, <<RUPEE, "0">>, <<"R", "s", "5", "0", "0">>}
OffElems == [txt : PriceTexts, text_price : BOOLEAN]

\* lines 47-58: the amounts of the offscreen texts that are not empty and parse
Parsed(off) ==
    LET amts == [i \in 1..Len(off) |-> parse_amount(off[i].txt)]
    IN  SelectSeq(amts, LAMBDA a : a # None)

SeqMin(q) == CHOOSE a \in {q[i] : i \in 1..Len(q)} : \A j \in 1..Len(q) : a <= q[j]
SeqMax(q) == CHOOSE a \in {q[i] : i \in 1..Len(q)} : \A j \in 1..Len(q) : a >= q[j]

Step1MrpAlways(parsed) == SeqMax(parsed)

\* lines 65-66: the reference price step 1 takes from the parsed amounts (not empty)
Step1Mrp(parsed) == IF Len(parsed) > 1 THEN SeqMax(parsed) ELSE None

PriceInit ==
    /\ offscreen \in SeqsUpTo(OffElems, MaxOff)
    /\ discounted_amt = None
    /\ mrp_amt = None
    /\ xpc = "step1"
    /\ raised1 = FALSE
    /\ early = FALSE
    /\ discount_percentage = <<>>
    /\ ParseIdle /\ ScrapeIdle /\ ViewerIdle

\* lines 44-71
Step1 ==
    /\ xpc = "step1"
    /\ \E raise \in BOOLEAN :
         LET parsed == Parsed(offscreen)
         IN  IF raise
             THEN /\ raised1' = TRUE
                  /\ xpc' = "step2"
                  /\ UNCHANGED <<discounted_amt, mrp_amt, early>>
             ELSE /\ raised1' = FALSE
                  /\ IF parsed = <<>>
                     THEN /\ xpc' = "step2"
                          /\ UNCHANGED <<discounted_amt, mrp_amt, early>>
                     ELSE /\ discounted_amt' = SeqMin(parsed)
                          /\ mrp_amt' = Step1Mrp(parsed)
                          /\ early' = (SeqMin(parsed) > 0)
                          /\ xpc' = IF SeqMin(parsed) > 0 THEN "return" ELSE "step2"
    /\ UNCHANGED <<offscreen, discount_percentage, parse_vars, scrape_vars, viewer_vars>>

\* lines 74-81
Step2 ==
    /\ xpc = "step2"
    /\ \E raise \in BOOLEAN :
         LET mrp_el == SelectSeq(offscreen, LAMBDA e : e.text_price)
         IN  IF ~raise /\ mrp_el # <<>>
             THEN mrp_amt' = parse_amount(mrp_el[1].txt)
             ELSE UNCHANGED mrp_amt
    /\ xpc' = "step3"
    /\ UNCHANGED <<offscreen, discounted_amt, raised1, early, discount_percentage,
                   parse_vars, scrape_vars, viewer_vars>>

\* lines 84-97
Step3 ==
    /\ xpc = "step3"
    /\ \E raise \in BOOLEAN, w \in WholeTexts, fr \in FracTexts :
         LET f == IF fr = ABSENT THEN <<>> ELSE fr
             txt == IF f # <<>> THEN w \o <<".">> \o f ELSE w
         IN  IF ~raise /\ w # ABSENT /\ parse_amount(txt) > 0 /\ discounted_amt = None
             THEN discounted_amt' = parse_amount(txt)
             ELSE UNCHANGED discounted_amt
    /\ xpc' = "step4"
    /\ UNCHANGED <<offscreen, mrp_amt, raised1, early, discount_percentage,
                   parse_vars, scrape_vars, viewer_vars>>

\* lines 100-111
Step4 ==
    /\ xpc = "step4"
    /\ \E fb \in FallbackTexts :
         IF discounted_amt = None /\ fb # ABSENT /\ parse_amount(fb) > 0
         THEN discounted_amt' = parse_amount(fb)
         ELSE UNCHANGED discounted_amt
    /\ xpc' = "return"
    /\ UNCHANGED <<offscreen, mrp_amt, raised1, early, discount_percentage,
                   parse_vars, scrape_vars, viewer_vars>>

\* round(n / d, 0) to the nearest integer, ties to even (d > 0)
RoundDiv(n, d) ==
    LET q == n \div d
        r == n % d
    IN  IF 2 * r < d THEN q
        ELSE IF 2 * r > d THEN q + 1
        ELSE IF q % 2 = 0 THEN q ELSE q + 1

\* line 321, in hundredths of a percent
DiscountOf(mrp, disc) == RoundDiv((mrp - disc) * 10000, mrp)

\* scrape_amazon, lines 318-323: "" is <<>>, a number n/100 is <<n>>
ComputeDiscount ==
    /\ xpc = "return"
    /\ discount_percentage' =
         IF mrp_amt > 0 /\ discounted_amt > 0
         THEN <<DiscountOf(mrp_amt, discounted_amt)>>
         ELSE <<>>
    /\ xpc' = "row"
    /\ UNCHANGED <<offscreen, discounted_amt, mrp_amt, raised1, early,
                   parse_vars, scrape_vars, viewer_vars>>

PriceNext == Step1 \/ Step2 \/ Step3 \/ Step4 \/ ComputeDiscount

SpecPrices == PriceInit /\ [][PriceNext]_vars

AfterStep1 == ~raised1 /\ (xpc = "step2" \/ early)
AllEqual(q) == \A i, j \in 1..Len(q) : q[i] = q[j]

\* C4 (as stated): step 1 takes a current/reference pair only from several
\* distinct amounts, the minimum as current price and the maximum as mrp; when
\* all parsed amounts are one value, it is the current price and step 1 sets no mrp.
C4_DistinctAmountsOnly ==
    AfterStep1 /\ Parsed(offscreen) # <<>> =>
        LET parsed == Parsed(offscreen)
        IN  /\ discounted_amt = SeqMin(parsed)
            /\ mrp_amt = IF AllEqual(parsed) THEN None ELSE SeqMax(parsed)

\* C4 (amended): when two or more offscreen texts parse, equal or not, step 1
\* sets the current price to the minimum and the mrp to the maximum; when exactly
\* one parses, it is the current price and step 1 sets no mrp; when none parses,
\* step 1 sets neither.
C4_SeveralAmounts ==
    AfterStep1 =>
        LET parsed == Parsed(offscreen)
        IN  /\ Len(parsed) >= 2 =>
                discounted_amt = SeqMin(parsed) /\ mrp_amt = SeqMax(parsed)
            /\ Len(parsed) = 1 =>
                discounted_amt = parsed[1] /\ mrp_amt = None
            /\ Len(parsed) = 0 =>
                discounted_amt = None /\ mrp_amt = None

C4_Witness ==
    /\ AfterStep1
    /\ Len(Parsed(offscreen)) = 2
    /\ AllEqual(Parsed(offscreen))
    /\ mrp_amt = discounted_amt
    /\ mrp_amt > 0

\* C9: once a step has set the current price no later step changes it, and once
\* a step has set the mrp no later step changes it.
C9_SetFieldsAreKept ==
    [][/\ discounted_amt # None => discounted_amt' = discounted_amt
       /\ mrp_amt # None => mrp_amt' = mrp_amt]_vars

\* C10: a non-empty discount_percentage was computed from an mrp that is at least
\* a current price above 0, and is at least 0 and less than 100.
C10_DiscountInRange ==
    discount_percentage # <<>> =>
        /\ mrp_amt >= discounted_amt
        /\ discounted_amt > 0
        /\ discount_percentage[1] >= 0
        /\ discount_percentage[1] < 10000

(***************************************************************************)
(* scrape_amazon: the page loop, the loop over a page's listing elements,  *)
(* the dedupe and the CSV written at the end.  What the browser shows (the *)
(* listing elements of a page, their title and link, whether the next-page *)
(* control is found, how the click and the wait end) is drawn at each      *)
(* step; a page may show the listings of an earlier one again.  A row is   *)
(* its title and link, the two fields the dedupe reads; the price fields   *)
(* of a row are those of SpecPrices.  The debug print of lines 294-299     *)
(* only logs and skips the element, like line 309.                         *)
(***************************************************************************)
NoTitle == ""
NoLink == ""
Titles == {"t1", "t2"}
Links == {"l1", "l2"}

\* extract_title_and_link: every return that carries a link carries a title
TitleLinkPairs ==
    {<<NoTitle, NoLink>>} \cup (Titles \X (Links \cup {NoLink}))

IsDuplicateLinkOnly(rows, title, link) ==
    link # NoLink /\ \E i \in 1..Len(rows) : rows[i].link = link

\* lines 326-331
IsDuplicate(rows, title, link) ==
    IF link # NoLink
    THEN \E i \in 1..Len(rows) : rows[i].link = link
    ELSE \E i \in 1..Len(rows) : rows[i].title = title

LoopConditionOffByOne(n, pv) == n <= min_results /\ pv < max_pages

\* line 275
LoopCondition(n, pv) == n < min_results /\ pv < max_pages

PaginationNeverBreaks(cards_present) == FALSE

\* lines 369-374: after a failed click or wait, break only without listing elements
PaginationBreaks(cards_present) == ~cards_present

ScrapeInit ==
    /\ min_results \in 0..MaxResults
    /\ max_pages \in 0..MaxPages
    /\ results = <<>>
    /\ pages_visited = 0
    /\ spc = "while"
    /\ cards_left = 0
    /\ pag_error = "none"
    /\ written = <<>>
    /\ ParseIdle /\ PriceIdle /\ ViewerIdle

\* lines 275-287
WhileTest ==
    /\ spc = "while"
    /\ IF LoopCondition(Len(results), pages_visited)
       THEN /\ pages_visited' = pages_visited + 1
            /\ cards_left' \in 0..MaxCards
            /\ spc' = "cards"
       ELSE /\ spc' = "save"
            /\ UNCHANGED <<pages_visited, cards_left>>
    /\ UNCHANGED <<min_results, max_pages, results, pag_error, written,
                   parse_vars, price_vars, viewer_vars>>

\* lines 289-343, one listing element
Card ==
    /\ spc = "cards"
    /\ cards_left > 0
    /\ IF Len(results) >= min_results
       THEN /\ cards_left' = 0
            /\ UNCHANGED results
       ELSE /\ cards_left' = cards_left - 1
            /\ \E tl \in TitleLinkPairs, second \in Links \cup {NoLink}, raise \in BOOLEAN :
                 LET title == tl[1]
                     link == IF tl[1] # NoTitle /\ tl[2] = NoLink THEN second ELSE tl[2]
                 IN  IF raise \/ title = NoTitle \/ IsDuplicate(results, title, link)
                     THEN UNCHANGED results
                     ELSE results' = Append(results, [title |-> title, link |-> link])
    /\ UNCHANGED <<min_results, max_pages, pages_visited, spc, pag_error, written,
                   parse_vars, price_vars, viewer_vars>>

\* lines 345-374
Paginate ==
    /\ spc = "cards"
    /\ cards_left = 0
    /\ \/ /\ Len(results) >= min_results
          /\ spc' = "save"
          /\ UNCHANGED pag_error
       \/ /\ Len(results) < min_results
          /\ \E next_el \in BOOLEAN, failed \in BOOLEAN, cards_present \in BOOLEAN :
               IF ~next_el
               THEN spc' = "save" /\ UNCHANGED pag_error
               ELSE IF ~failed
               THEN spc' = "while" /\ UNCHANGED pag_error
               ELSE /\ pag_error' = IF cards_present THEN "cards" ELSE "nocards"
                    /\ spc' = IF PaginationBreaks(cards_present) THEN "save" ELSE "while"
    /\ UNCHANGED <<min_results, max_pages, results, pages_visited, cards_left, written,
                   parse_vars, price_vars, viewer_vars>>

\* lines 376-384
Save ==
    /\ spc = "save"
    /\ written' = results
    /\ spc' = "done"
    /\ UNCHANGED <<min_results, max_pages, results, pages_visited, cards_left, pag_error,
                   parse_vars, price_vars, viewer_vars>>

ScrapeNext == WhileTest \/ Card \/ Paginate \/ Save

SpecScrape == ScrapeInit /\ [][ScrapeNext]_vars

\* C1 (as stated): no two rows share a non-empty link, and a row without a link
\* shares its title with no other row.
C1_LinkOrTitleUnique ==
    \A i, j \in 1..Len(results) :
        i # j =>
            /\ results[i].link # NoLink => results[i].link # results[j].link
            /\ results[i].link = NoLink => results[i].title # results[j].title

\* C1 (amended): no two rows share a non-empty link, and a row without a link
\* shares its title with no row added before it, so with no other row without a
\* link; a row added later that has a link may carry the same title.
C1_UniqueAmongEarlier ==
    \A i, j \in 1..Len(results) :
        i < j =>
            /\ results[i].link # NoLink => results[i].link # results[j].link
            /\ results[j].link = NoLink => results[i].title # results[j].title

C1_Witness ==
    /\ Len(results) = 2
    /\ results[1].link = NoLink
    /\ results[2].link # NoLink
    /\ results[1].title = results[2].title

\* C2 (as stated): rows never exceed min_results, pages never exceed max_pages,
\* and once either limit is reached no listing is added and no page is visited.
C2_NothingAfterEitherLimit ==
    [][Len(results) >= min_results \/ pages_visited >= max_pages =>
           results' = results /\ pages_visited' = pages_visited]_vars

\* C2 (amended): rows never exceed min_results and pages never exceed max_pages;
\* once min_results rows are collected no listing is added and no page is
\* visited; once max_pages pages are visited no further page is visited, while
\* the listings of that last page are still added.
C2_LimitsHold ==
    /\ [](Len(results) <= min_results /\ pages_visited <= max_pages)
    /\ [][/\ Len(results) >= min_results =>
               results' = results /\ pages_visited' = pages_visited
          /\ pages_visited >= max_pages => pages_visited' = pages_visited]_vars

C2_Witness ==
    /\ spc = "done"
    /\ max_pages > 0
    /\ pages_visited = max_pages
    /\ Len(results) > 0
    /\ Len(results) < min_results

\* C3 (as stated): after a failed click or wait no further page is visited.
C3_FailureIsTerminal ==
    [][pag_error # "none" => pages_visited' = pages_visited]_vars

\* C3 (amended): a failed click or wait is terminal when no listing element is
\* present after it: no further page is visited, no row is added, the loop ends
\* and the rows collected so far are the rows written out.  With listing
\* elements still present the loop goes on.
C3_TerminalWithoutCards ==
    /\ [](pag_error = "nocards" =>
            /\ spc \in {"save", "done"}
            /\ spc = "done" => written = results)
    /\ [][pag_error = "nocards" =>
            pages_visited' = pages_visited /\ results' = results]_vars

C3_Witness ==
    /\ pag_error = "nocards"
    /\ spc = "done"
    /\ Len(written) > 0

(***************************************************************************)
(* simple_amazon_viewer: one run of the script.  The files on disk (fs) and *)
(* the sidebar's category and checkbox are given at the start; the table   *)
(* read from a file and the text typed in the search box are drawn when    *)
(* the script reads them.  A table has a title column and may have an mrp  *)
(* column; cells are texts or NAN, the missing cell.  Cells are texts      *)
(* only: a numeric column is not modelled.                                 *)
(***************************************************************************)
NAN == <<"NaN">>
\* lines 10-14, in the dict's order
CSV_FILES == << [cat |-> "Laptops",    path |-> "amazon_results_laptops.csv"],
                [cat |-> "Mobiles",    path |-> "amazon_results_mobilephones.csv"],
                [cat |-> "Headphones", path |-> "amazon_headphones.csv"] >>
Categories == {CSV_FILES[i].cat : i \in 1..Len(CSV_FILES)}

CatText(cat) ==
    CASE cat = "Laptops"    -> <<"L", "a", "p", "t", "o", "p", "s">>
      [] cat = "Mobiles"    -> <<"M", "o", "b", "i", "l", "e", "s">>
      [] cat = "Headphones" -> <<"H", "e", "a", "d", "p", "h", "o", "n", "e", "s">>

\* the rows a CSV file may hold, by its columns
RowsOf(cols) ==
    IF cols = {"title"}
    THEN {[c \in cols |-> <<"a">>]}
    ELSE {[c \in cols |-> IF c = "title" THEN <<"a">> ELSE m] : m \in {NAN, <<"b">>}}

Tables ==
    UNION {{[cols |-> cols, rows |-> r] : r \in SeqsUpTo(RowsOf(cols), MaxRows)} :
              cols \in {{"title"}, {"title", "mrp"}}}

QChars == {"N", ".", " "}

\* line 39
WithCategory(df, cat) ==
    [cols |-> df.cols \cup {"Category"},
     rows |-> [i \in 1..Len(df.rows) |->
                 [c \in df.cols \cup {"Category"} |->
                     IF c = "Category" THEN CatText(cat) ELSE df.rows[i][c]]]]

RECURSIVE ConcatFrom(_, _, _)
ConcatFrom(frames, i, cols) ==
    IF i > Len(CSV_FILES) THEN <<>>
    ELSE LET cat == CSV_FILES[i].cat
             part == IF cat \in DOMAIN frames
                     THEN [k \in 1..Len(frames[cat].rows) |->
                             [c \in cols |-> IF c \in frames[cat].cols
                                             THEN frames[cat].rows[k][c] ELSE NAN]]
                     ELSE <<>>
         IN  part \o ConcatFrom(frames, i + 1, cols)

\* line 47: pd.concat(dfs.values(), ignore_index=True); a column a frame lacks is NaN
Concat(frames) ==
    LET cols == UNION {frames[c].cols : c \in DOMAIN frames}
    IN  [cols |-> cols, rows |-> ConcatFrom(frames, 1, cols)]

\* str.strip()
RECURSIVE LStrip(_)
LStrip(s) == IF s # <<>> /\ Head(s) = " " THEN LStrip(Tail(s)) ELSE s
RECURSIVE RStrip(_)
RStrip(s) == IF s # <<>> /\ s[Len(s)] = " " THEN RStrip(SubSeq(s, 1, Len(s) - 1)) ELSE s
Strip(s) == RStrip(LStrip(s))

\* astype(str) of a cell
StrForm(cell) == IF cell = NAN THEN <<"n", "a", "n">> ELSE cell

Lower(c) ==
    CASE c = "N" -> "n" [] c = "L" -> "l" [] c = "M" -> "m" [] c = "H" -> "h"
      [] OTHER -> c

\* re.search(pat, s, re.IGNORECASE) for a pattern of literal characters and ".":
\* str.contains takes the term as a regular expression (regex=True by default)
RegexSearch(pat, s) ==
    \E i \in 0..(Len(s) - Len(pat)) :
        \A k \in 1..Len(pat) :
            pat[k] = "." \/ Lower(pat[k]) = Lower(s[i + k])

\* line 68: does any cell of the row match
RowMatches(row, q) == \E c \in DOMAIN row : RegexSearch(q, StrForm(row[c]))

\* lines 65-73
FilterRows(rows, q) ==
    IF q # <<>> THEN SelectSeq(rows, LAMBDA r : RowMatches(r, q)) ELSE rows

StopsOnMissingNever(m) == FALSE

\* line 42
StopsOnMissing(m) == m # <<>>

ViewerInit ==
    /\ fs \in [1..Len(CSV_FILES) -> {"ok", "missing", "unreadable"}]
    /\ category \in Categories
    /\ search_all \in BOOLEAN
    /\ vpc = "load"
    /\ load_idx = 1
    /\ missing = <<>>
    /\ dfs = <<>>
    /\ query = <<>>
    /\ filtered = <<>>
    /\ shown = {"sidebar"}
    /\ ParseIdle /\ PriceIdle /\ ScrapeIdle

\* lines 28-40, one file of CSV_FILES
LoadCsv ==
    /\ vpc = "load"
    /\ load_idx <= Len(CSV_FILES)
    /\ LET cat == CSV_FILES[load_idx].cat
           path == CSV_FILES[load_idx].path
       IN  \/ /\ fs[load_idx] = "missing"
              /\ missing' = Append(missing, path)
              /\ load_idx' = load_idx + 1
              /\ UNCHANGED <<dfs, shown, vpc>>
           \/ /\ fs[load_idx] = "unreadable"
              /\ shown' = shown \cup {"error"}
              /\ vpc' = "stopped"
              /\ UNCHANGED <<dfs, missing, load_idx>>
           \/ /\ fs[load_idx] = "ok"
              /\ \E df \in Tables :
                   dfs' = [c \in DOMAIN dfs \cup {cat} |->
                             IF c = cat THEN WithCategory(df, cat) ELSE dfs[c]]
              /\ load_idx' = load_idx + 1
              /\ UNCHANGED <<missing, shown, vpc>>
    /\ UNCHANGED <<fs, category, search_all, query, filtered,
                   parse_vars, price_vars, scrape_vars>>

\* lines 42-44
CheckMissing ==
    /\ vpc = "load"
    /\ load_idx > Len(CSV_FILES)
    /\ IF StopsOnMissing(missing)
       THEN shown' = shown \cup {"error"} /\ vpc' = "stopped"
       ELSE shown' = shown /\ vpc' = "search"
    /\ UNCHANGED <<fs, category, search_all, load_idx, missing, dfs, query, filtered,
                   parse_vars, price_vars, scrape_vars>>

\* lines 47-92
Search ==
    /\ vpc = "search"
    /\ \E typed \in SeqsUpTo(QChars, MaxQLen) :
         /\ query' = Strip(typed)
         /\ IF ~search_all /\ category \notin DOMAIN dfs
            THEN \* line 61 raises KeyError
                 /\ shown' = shown \cup {"title", "search_input", "subheader"}
                 /\ vpc' = "crashed"
                 /\ UNCHANGED filtered
            ELSE /\ filtered' = FilterRows(IF search_all THEN Concat(dfs).rows
                                           ELSE dfs[category].rows, Strip(typed))
                 /\ shown' = shown \cup {"title", "search_input", "subheader", "count",
                                         "table", "download"}
                                   \cup (IF search_all THEN {"counts"} ELSE {})
                 /\ vpc' = "done"
    /\ UNCHANGED <<fs, category, search_all, load_idx, missing, dfs,
                   parse_vars, price_vars, scrape_vars>>

ViewerNext == LoadCsv \/ CheckMissing \/ Search

SpecViewer == ViewerInit /\ [][ViewerNext]_vars

\* The term as a plain substring of s, compared case-insensitively
SubstringCI(term, s) ==
    \E i \in 0..(Len(s) - Len(term)) :
        \A k \in 1..Len(term) : Lower(term[k]) = Lower(s[i + k])

Searched == IF search_all THEN Concat(dfs).rows ELSE dfs[category].rows

\* C5: the filtered output is exactly the rows, in their order, of which at least
\* one field's string form contains the term as a case-insensitive substring; an
\* empty term yields all rows and a term contained in no field yields no row.
C5_SubstringFilter ==
    vpc = "done" =>
        filtered = SelectSeq(Searched,
                             LAMBDA r : \E c \in DOMAIN r : SubstringCI(query, StrForm(r[c])))

RECURSIVE SumOfCategoryCounts(_, _)
SumOfCategoryCounts(i, q) ==
    IF i > Len(CSV_FILES) THEN 0
    ELSE Len(FilterRows(dfs[CSV_FILES[i].cat].rows, q)) + SumOfCategoryCounts(i + 1, q)

\* C6: the number of rows of the global filtered result equals the sum over the
\* categories of the number of rows of the category's filtered result, for the
\* same term.
C6_GlobalCountIsSum ==
    vpc = "done" =>
        Len(FilterRows(Concat(dfs).rows, query)) = SumOfCategoryCounts(1, query)

====
